---- MODULE Spec2Model ----
(***************************************************************************)
(* A model of package estack: the lunar limb detector (FindLunarLimb, its  *)
(* centroid / brightness pass, the flood fill, LunarLimb.Grow and          *)
(* GrowRectangle, the process-wide debug composite image) and the affine   *)
(* transform algebra of affine.go.                                         *)
(*                                                                         *)
(* Images are small grids of 16-bit RGB pixels whose bounds start at the   *)
(* origin, as a decoded photograph's do.  A pixel read outside the bounds  *)
(* yields the zero colour, which is what the standard image types return.  *)
(***************************************************************************)
EXTENDS Integers, Sequences, FiniteSets

VARIABLES
    pool,       \* which images the caller passes: "any" or "series"
    callsLeft,  \* how many calls the caller has still to make
    pc,         \* "idle", "fill", "returned" or "fatal"
    img,        \* si.OrigImage of the running call
    ll,         \* the LunarLimb under construction
    thresh,     \* the flood fill's threshold
    seen,       \* the points whose seen[x][y] is true
    toVisit,    \* the work queue
    accepted,   \* history: the points passed to ll.Grow in this call
    dci,        \* the process-wide DebugCompositeImage
    proc,       \* which run of the program this is, counted from 1
    history,    \* observer's log: how each call ended and with what limb
    m,          \* affine chain: the transform built so far
    prev,       \* affine chain: the receiver of the last operation
    ops,        \* affine chain: the operands multiplied on so far
    llA, restA, \* Grow harness: first submission order
    llB, restB  \* Grow harness: second submission order

fillVars == <<pool, callsLeft, pc, img, ll, thresh, seen, toVisit, accepted, dci, proc,
              history>>
affVars == <<m, prev, ops>>
growVars == <<llA, restA, llB, restB>>
vars == <<fillVars, affVars, growVars>>

----------------------------------------------------------------------------
(* Bounds of the model *)

MaxW == 3
MaxH == 3
MaxArea == 9
MaxRuns == 3
MaxProcs == 2
MaxLiveArea == 6
MaxCoord == 2
MaxPts == 3
MaxChain == 2
MaxT == 1

(* Program constants *)

BandLo == 768
BandHi == 65520
DefaultThresh == 4096
DimLimit == 21
DimThresh == 64
MaxGray == 65535
U16 == 65536
DebugFrames == 5
NumPlotColors == 7

----------------------------------------------------------------------------
(* Pixels and images *)

Black == <<0, 0, 0>>
DimRed == <<1024, 0, 0>>
Bright == <<32772, 32772, 32772>>
Palette == {Black, DimRed, Bright}

Pt(x, y) == <<x, y>>
Grid(w, h) == (0 .. w - 1) \X (0 .. h - 1)

Images ==
    UNION { [w : {w}, h : {h}, px : [Grid(w, h) -> Palette]] :
            <<w, h>> \in { s \in (1 .. MaxW) \X (1 .. MaxH) : s[1] * s[2] <= MaxArea } }

NoImage == [w |-> 0, h |-> 0, px |-> <<>>]

\* img.Bounds(): Min inclusive, Max exclusive
ImgBounds(i) == [Min |-> Pt(0, 0), Max |-> Pt(i.w, i.h)]

\* img.At(x, y).RGBA(): the zero colour outside the bounds
At(i, x, y) ==
    IF x \in 0 .. i.w - 1 /\ y \in 0 .. i.h - 1 THEN i.px[Pt(x, y)] ELSE <<0, 0, 0>>

\* Go's integer division truncates toward zero
Quot(a, b) == IF a >= 0 THEN a \div b ELSE -((-a) \div b)

\* 0.2989 r + 0.5870 g + 0.1140 b, clamped, truncated to uint16
\* (the float64 sum truncates to this integer for every colour of Palette)
ColToGrayU16(c) ==
    LET gray == (2989 * c[1] + 5870 * c[2] + 1140 * c[3]) \div 10000
    IN  IF gray > MaxGray THEN MaxGray ELSE gray

----------------------------------------------------------------------------
(* Geometry *)

ZeroRect == [Min |-> Pt(0, 0), Max |-> Pt(0, 0)]
ZeroLimb == [LuminalCenter |-> Pt(0, 0), Brightness |-> 0, Bounds |-> ZeroRect]

GrowRectangle(r, p) ==
    LET minX == IF p[1] < r.Min[1] THEN p[1] ELSE r.Min[1]
        maxX == IF p[1] < r.Min[1] THEN r.Max[1]
                ELSE IF p[1] > r.Max[1] THEN p[1] ELSE r.Max[1]
        minY == IF p[2] < r.Min[2] THEN p[2] ELSE r.Min[2]
        maxY == IF p[2] < r.Min[2] THEN r.Max[2]
                ELSE IF p[2] > r.Max[2] THEN p[2] ELSE r.Max[2]
    IN  [Min |-> Pt(minX, minY), Max |-> Pt(maxX, maxY)]

Grow(l, p) ==
    IF l.Bounds.Max[1] = 0
    THEN [l EXCEPT !.Bounds = [Min |-> p, Max |-> p]]
    ELSE [l EXCEPT !.Bounds = GrowRectangle(l.Bounds, p)]

Dx(r) == r.Max[1] - r.Min[1]
Dy(r) == r.Max[2] - r.Min[2]
Radius(l) == Quot(Dx(l.Bounds) + Dy(l.Bounds), 4)

----------------------------------------------------------------------------
(* Centroid and brightness sample *)

RECURSIVE SumCoord(_, _)
SumCoord(S, k) ==
    IF S = {} THEN 0
    ELSE LET p == CHOOSE q \in S : TRUE IN p[k] + SumCoord(S \ {p}, k)

\* the pixels the scan counts: both loops run to Max inclusive
Qualifying(i) ==
    { p \in (0 .. i.w) \X (0 .. i.h) :
        LET r == At(i, p[1], p[2])[1] IN r > BandLo /\ r < BandHi }

\* the loop of lines 63-65: a uint16 accumulator over the window
RECURSIVE SampleSum(_, _, _, _)
SampleSum(i, c, k, acc) ==
    IF ~(k < 5) THEN acc
    ELSE SampleSum(i, c, k + 1, (acc + ColToGrayU16(At(i, c[1] + k, c[2]))) % U16)

computeLuminalCenter(l, i) ==
    LET Q == Qualifying(i)
        n == Cardinality(Q)
    IN  IF n = 0 THEN l
        ELSE LET c == Pt(Quot(SumCoord(Q, 1), n), Quot(SumCoord(Q, 2), n))
             IN  [l EXCEPT !.LuminalCenter = c,
                           !.Brightness =
                               SampleSum(i, c, -5, l.Brightness) \div 10]

\* a detector without the dim-frame case
PickThreshFixed(b) == DefaultThresh

PickThresh(b) == IF b < DimLimit THEN DimThresh ELSE DefaultThresh

----------------------------------------------------------------------------
(* The debug composite image *)

NilMap == [alloc |-> FALSE, w |-> 0, h |-> 0, px |-> <<>>]
NewRGBA(b) ==
    [alloc |-> TRUE, w |-> b.Max[1], h |-> b.Max[2],
     px |-> [p \in Grid(b.Max[1], b.Max[2]) |-> 0]]

ZeroDci == [fillMap |-> NilMap, currFrame |-> 0, center |-> Pt(0, 0), maxFrames |-> 0]

\* index (from 1) into plotColors; 0 in the map is a pixel never set
PickColor(d) == (d.currFrame % NumPlotColors) + 1

\* RGBA.Set ignores points outside the map
PlotRectangle(d, r) ==
    LET col == PickColor(d)
        onEdge(p) ==
            \/ p[1] \in r.Min[1] .. r.Max[1] /\ (p[2] = r.Min[2] \/ p[2] = r.Max[2])
            \/ p[2] \in r.Min[2] .. r.Max[2] /\ (p[1] = r.Min[1] \/ p[1] = r.Max[1])
    IN  [d EXCEPT !.fillMap.px =
            [p \in DOMAIN d.fillMap.px |-> IF onEdge(p) THEN col ELSE d.fillMap.px[p]]]

Square(p, k) == [Min |-> Pt(p[1] - k, p[2] - k), Max |-> Pt(p[1] + k, p[2] + k)]

PlotMarker(d, p) ==
    PlotRectangle(PlotRectangle(PlotRectangle(d, Square(p, 2)), Square(p, 4)),
                  Square(p, 6))

StartNewFrame(d, bounds, center) ==
    LET d1 == IF ~d.fillMap.alloc
              THEN [d EXCEPT !.fillMap = NewRGBA(bounds), !.center = center,
                             !.maxFrames = DebugFrames]
              ELSE [d EXCEPT !.currFrame = d.currFrame + 1]
    IN  PlotMarker(d1, center)

\* int((180 + atan2(dy, dx) in degrees) / 12) for dy, dx in -4 .. 4,
\* row dy + 5, column dx + 5, evaluated in float64 as the code does
SegmentTable ==
    << <<3, 4, 5, 6, 7, 8, 9, 10, 11>>,
       <<3, 3, 4, 5, 7, 9, 10, 11, 11>>,
       <<2, 2, 3, 5, 7, 9, 11, 12, 12>>,
       <<1, 1, 2, 3, 7, 11, 12, 13, 13>>,
       <<30, 30, 30, 30, 15, 15, 15, 15, 15>>,
       <<28, 28, 27, 26, 22, 18, 17, 16, 16>>,
       <<27, 27, 26, 24, 22, 20, 18, 17, 17>>,
       <<26, 26, 25, 24, 22, 20, 19, 18, 18>>,
       <<26, 25, 24, 23, 22, 21, 20, 19, 18>> >>

Plot(d, p) ==
    LET segment == SegmentTable[p[2] - d.center[2] + 5][p[1] - d.center[1] + 5]
    IN  IF (segment % d.maxFrames) # d.currFrame THEN d
        ELSE [d EXCEPT !.fillMap.px =
                 [q \in DOMAIN d.fillMap.px |->
                     IF q = p THEN PickColor(d) ELSE d.fillMap.px[q]]]

----------------------------------------------------------------------------
(* FindLunarLimb *)

\* a fill that starts from the overlay's centre
SeedFromOverlay(l, d) == d.center

\* the point the fill starts from
Seed(l, d) == l.LuminalCenter

\* a loop that reads the head of the queue and leaves it there
RestKeep(q) == q

\* p, toVisit = toVisit[0], toVisit[1:]
Rest(q) == Tail(q)

\* the four guarded appends of lines 115-126, in order
Neighbours(b, s, p) ==
    LET left == IF p[1] > b.Min[1] /\ Pt(p[1] - 1, p[2]) \notin s
                THEN <<Pt(p[1] - 1, p[2])>> ELSE <<>>
        up == IF p[2] > b.Min[2] /\ Pt(p[1], p[2] - 1) \notin s
              THEN <<Pt(p[1], p[2] - 1)>> ELSE <<>>
        right == IF p[1] < b.Max[1] /\ Pt(p[1] + 1, p[2]) \notin s
                 THEN <<Pt(p[1] + 1, p[2])>> ELSE <<>>
        down == IF p[2] < b.Max[2] /\ Pt(p[1], p[2] + 1) \notin s
                THEN <<Pt(p[1], p[2] + 1)>> ELSE <<>>
    IN  left \o up \o right \o down

\* a test that looks at the width of the box alone
LimbFoundByWidth(l) == Dx(l.Bounds) # 0

\* the test of line 133, negated
LimbFound(l) == Radius(l) # 0

\* the process before its first call
Fresh ==
    /\ pc = "idle" /\ img = NoImage /\ ll = ZeroLimb /\ thresh = 0
    /\ seen = {} /\ toVisit = <<>> /\ accepted = {} /\ dci = ZeroDci
    /\ proc = 1 /\ history = <<>>
FillIdle == pool = "none" /\ callsLeft = 0 /\ Fresh
AffIdle == m = <<>> /\ prev = <<>> /\ ops = <<>>
GrowIdle == llA = ZeroLimb /\ restA = {} /\ llB = ZeroLimb /\ restB = {}

\* the images of a series: 2 x 2, every column or every row of one colour
RunPool ==
    { i \in Images :
        /\ i.w = 2 /\ i.h = 2
        /\ \/ \A p \in Grid(i.w, i.h) : i.px[p] = i.px[Pt(p[1], 0)]
           \/ \A p \in Grid(i.w, i.h) : i.px[p] = i.px[Pt(0, p[2])] }

\* the images of at most MaxLiveArea pixels
SmallImages == { i \in Images : i.w * i.h <= MaxLiveArea }

PoolOf(k) ==
    IF k = "any" THEN Images
    ELSE IF k = "series" THEN RunPool
    ELSE IF k = "small" THEN SmallImages
    ELSE {}

\* lines 75-95
Call ==
    /\ pc \in {"idle", "returned"}
    /\ callsLeft > 0
    /\ \E i \in PoolOf(pool) :
         LET l == computeLuminalCenter(ZeroLimb, i)
             d == StartNewFrame(dci, ImgBounds(i), l.LuminalCenter)
         IN  /\ img' = i
             /\ ll' = l
             /\ dci' = d
             /\ thresh' = PickThresh(l.Brightness)
             /\ toVisit' = <<Seed(l, d)>>
    /\ callsLeft' = callsLeft - 1
    /\ seen' = {}
    /\ accepted' = {}
    /\ pc' = "fill"
    /\ UNCHANGED <<pool, proc, history, affVars, growVars>>

\* lines 97-102: a point already seen
FillSkip ==
    /\ pc = "fill"
    /\ toVisit # <<>>
    /\ Head(toVisit) \in seen
    /\ toVisit' = Rest(toVisit)
    /\ UNCHANGED <<pool, callsLeft, pc, img, ll, thresh, seen, accepted, dci, proc,
                   history, affVars, growVars>>

\* lines 97-110: a point brighter than the threshold
FillReject ==
    /\ pc = "fill"
    /\ toVisit # <<>>
    /\ LET p == Head(toVisit)
       IN  /\ p \notin seen
           /\ ColToGrayU16(At(img, p[1], p[2])) > thresh
           /\ seen' = seen \cup {p}
    /\ toVisit' = Rest(toVisit)
    /\ UNCHANGED <<pool, callsLeft, pc, img, ll, thresh, accepted, dci, proc,
                   history, affVars, growVars>>

\* lines 97-126: a point inside the limb
FillAccept ==
    /\ pc = "fill"
    /\ toVisit # <<>>
    /\ LET p == Head(toVisit)
       IN  /\ p \notin seen
           /\ ~(ColToGrayU16(At(img, p[1], p[2])) > thresh)
           /\ seen' = seen \cup {p}
           /\ ll' = Grow(ll, p)
           /\ accepted' = accepted \cup {p}
           /\ dci' = Plot(dci, p)
           /\ toVisit' = Rest(toVisit) \o Neighbours(ImgBounds(img), seen \cup {p}, p)
    /\ UNCHANGED <<pool, callsLeft, pc, img, thresh, proc, history, affVars, growVars>>

\* what the observer of the program notes when a call ends
Outcome(n, i, how, l) == [proc |-> n, img |-> i, outcome |-> how, ll |-> l]

\* lines 97, 129-137 with a radius: the limb goes back to the caller
\* (Flush writes the overlay to a file and changes nothing here)
ReturnLimb ==
    /\ pc = "fill"
    /\ toVisit = <<>>
    /\ LimbFound(ll)
    /\ dci' = PlotRectangle(dci, ll.Bounds)
    /\ history' = Append(history, Outcome(proc, img, "returned", ll))
    /\ pc' = "returned"
    /\ UNCHANGED <<pool, callsLeft, img, ll, thresh, seen, toVisit, accepted, proc,
                   affVars, growVars>>

\* lines 97, 129-135 without one: log.Fatal ends the process
Fatal ==
    /\ pc = "fill"
    /\ toVisit = <<>>
    /\ ~LimbFound(ll)
    /\ dci' = PlotRectangle(dci, ll.Bounds)
    /\ history' = Append(history, Outcome(proc, img, "fatal", ll))
    /\ pc' = "fatal"
    /\ UNCHANGED <<pool, callsLeft, img, ll, thresh, seen, toVisit, accepted, proc,
                   affVars, growVars>>

\* one call of FindLunarLimb on any image, in a fresh process
Init ==
    /\ pool = "any" /\ callsLeft = 1 /\ Fresh
    /\ AffIdle /\ GrowIdle

Next == Call \/ FillSkip \/ FillReject \/ FillAccept \/ ReturnLimb \/ Fatal

Spec == Init /\ [][Next]_vars

\* a process that detects the limb in a series of images, one after the other
InitRuns ==
    /\ pool = "series" /\ callsLeft = MaxRuns /\ Fresh
    /\ AffIdle /\ GrowIdle

\* the program ends, after a return or log.Fatal, and is started again: the
\* package variable dci starts from its zero value
Restart ==
    /\ pc \in {"returned", "fatal"}
    /\ callsLeft > 0
    /\ proc < MaxProcs
    /\ proc' = proc + 1
    /\ dci' = ZeroDci
    /\ pc' = "idle"
    /\ UNCHANGED <<pool, callsLeft, img, ll, thresh, seen, toVisit, accepted,
                   history, affVars, growVars>>

NextRuns == Next \/ Restart

SpecRuns == InitRuns /\ [][NextRuns]_vars

\* the calling goroutine runs the loop without ever being suspended for good
InitLive ==
    /\ pool = "small" /\ callsLeft = 1 /\ Fresh
    /\ AffIdle /\ GrowIdle

SpecLive == InitLive /\ [][Next]_vars /\ WF_vars(Next)

----------------------------------------------------------------------------
(* LunarLimb.Grow fed one set of points in two orders *)

GrowPts == (0 .. MaxCoord) \X (0 .. MaxCoord)

InitGrow ==
    /\ \E S \in SUBSET GrowPts :
         /\ S # {} /\ Cardinality(S) <= MaxPts
         /\ restA = S /\ restB = S
    /\ llA = ZeroLimb /\ llB = ZeroLimb
    /\ FillIdle /\ AffIdle

GrowFirst ==
    /\ \E p \in restA : llA' = Grow(llA, p) /\ restA' = restA \ {p}
    /\ UNCHANGED <<llB, restB, fillVars, affVars>>

GrowSecond ==
    /\ restA = {}
    /\ \E p \in restB : llB' = Grow(llB, p) /\ restB' = restB \ {p}
    /\ UNCHANGED <<llA, restA, fillVars, affVars>>

NextGrow == GrowFirst \/ GrowSecond

SpecGrow == InitGrow /\ [][NextGrow]_vars

----------------------------------------------------------------------------
(* Affine transforms: MyAff3 as its six coefficients, integers here *)

\* the product taken in the other order
MatMultSwapped(p, q) ==
    << q[1] * p[1] + q[2] * p[4],
       q[1] * p[2] + q[2] * p[5],
       q[1] * p[3] + q[2] * p[6] + q[3],
       q[4] * p[1] + q[5] * p[4],
       q[4] * p[2] + q[5] * p[5],
       q[4] * p[3] + q[5] * p[6] + q[6] >>

MatMult(p, q) ==
    << p[1] * q[1] + p[2] * q[4],
       p[1] * q[2] + p[2] * q[5],
       p[1] * q[3] + p[2] * q[6] + p[3],
       p[4] * q[1] + p[5] * q[4],
       p[4] * q[2] + p[5] * q[5],
       p[4] * q[3] + p[5] * q[6] + p[6] >>

MatIdentity == <<1, 0, 0, 0, 1, 0>>

\* the operand MatTranslate multiplies on
TranslateOf(tx, ty) == <<1, 0, tx, 0, 1, ty>>

MatTranslate(m1, tx, ty) == MatMult(m1, TranslateOf(tx, ty))

\* math.Cos and math.Sin at whole quarter turns, taken at their exact values
QuarterTurns == {0, 90, 180, 270}
CosDeg(t) == CASE t = 0 -> 1 [] t = 90 -> 0 [] t = 180 -> -1 [] t = 270 -> 0
SinDeg(t) == CASE t = 0 -> 0 [] t = 90 -> 1 [] t = 180 -> 0 [] t = 270 -> -1

\* the operand MatRotate multiplies on
RotateOf(t) == <<CosDeg(t), -1 * SinDeg(t), 0, SinDeg(t), CosDeg(t), 0>>

MatRotate(m1, thetaDeg) == MatMult(m1, RotateOf(thetaDeg))

MatRotateAbout(thetaDeg, x, y) ==
    MatTranslate(MatRotate(MatTranslate(MatIdentity, x, y), thetaDeg), -1 * x, -1 * y)

\* operands for MatMult: every transform with coefficients 0 or 1
AffSet == [1 .. 6 -> {0, 1}]
Shifts == (-MaxT) .. MaxT

InitAff ==
    /\ m = MatIdentity /\ prev = MatIdentity /\ ops = <<>>
    /\ FillIdle /\ GrowIdle

DoMatMult ==
    /\ Len(ops) < MaxChain
    /\ \E q \in AffSet :
         /\ m' = MatMult(m, q)
         /\ ops' = Append(ops, q)
    /\ prev' = m
    /\ UNCHANGED <<fillVars, growVars>>

DoMatTranslate ==
    /\ Len(ops) < MaxChain
    /\ \E tx \in Shifts, ty \in Shifts :
         /\ m' = MatTranslate(m, tx, ty)
         /\ ops' = Append(ops, TranslateOf(tx, ty))
    /\ prev' = m
    /\ UNCHANGED <<fillVars, growVars>>

DoMatRotate ==
    /\ Len(ops) < MaxChain
    /\ \E t \in QuarterTurns :
         /\ m' = MatRotate(m, t)
         /\ ops' = Append(ops, RotateOf(t))
    /\ prev' = m
    /\ UNCHANGED <<fillVars, growVars>>

DoMatRotateAbout ==
    /\ ops = <<>>
    /\ \E t \in QuarterTurns, x \in Shifts, y \in Shifts :
         /\ m' = MatRotateAbout(t, x, y)
         /\ prev' = MatRotate(MatTranslate(MatIdentity, x, y), t)
         /\ ops' = <<TranslateOf(x, y), RotateOf(t), TranslateOf(-1 * x, -1 * y)>>
    /\ UNCHANGED <<fillVars, growVars>>

NextAff == DoMatMult \/ DoMatTranslate \/ DoMatRotate \/ DoMatRotateAbout

SpecAff == InitAff /\ [][NextAff]_vars

----------------------------------------------------------------------------
(* Properties of the detector *)

Range(q) == { q[k] : k \in 1 .. Len(q) }
Finished == pc \in {"returned", "fatal"}
InImage(i, p) == p[1] >= 0 /\ p[1] < i.w /\ p[2] >= 0 /\ p[2] < i.h
Inside(r, p) ==
    r.Min[1] <= p[1] /\ p[1] <= r.Max[1] /\ r.Min[2] <= p[2] /\ p[2] <= r.Max[2]
Dark(i, t, p) == ColToGrayU16(At(i, p[1], p[2])) <= t
Adjacent(p, q) ==
    \/ p[1] = q[1] /\ (p[2] = q[2] + 1 \/ q[2] = p[2] + 1)
    \/ p[2] = q[2] /\ (p[1] = q[1] + 1 \/ q[1] = p[1] + 1)

\* the pixels of the image reachable from S through dark pixels
RECURSIVE Flood(_, _, _)
Flood(i, t, S) ==
    LET T == S \cup { q \in Grid(i.w, i.h) :
                        Dark(i, t, q) /\ \E p \in S : Adjacent(p, q) }
    IN  IF T = S THEN S ELSE Flood(i, t, T)

Reachable(i, t, c) ==
    IF InImage(i, c) /\ Dark(i, t, c) THEN Flood(i, t, {c}) ELSE {}

SetMin(S) == CHOOSE a \in S : \A b \in S : a <= b
SetMax(S) == CHOOSE a \in S : \A b \in S : a >= b
Box(S) ==
    [Min |-> Pt(SetMin({p[1] : p \in S}), SetMin({p[2] : p \in S})),
     Max |-> Pt(SetMax({p[1] : p \in S}), SetMax({p[2] : p \in S}))]

\* C1: when the fill has finished, Bounds is the bounding rectangle of the
\* pixels reachable from the luminal centroid by 4-connected steps through
\* pixels whose gray value does not exceed the threshold.
BoundsIsReachableBox ==
    (pc = "fill" /\ toVisit = <<>>) \/ Finished =>
        LET R == Reachable(img, thresh, ll.LuminalCenter)
        IN  R # {} => ll.Bounds = Box(R)

\* C2: once a pixel has been accepted, Bounds.Min <= Bounds.Max on both axes
\* and every pixel passed to Grow so far lies inside Bounds.
AcceptedInsideBounds ==
    accepted # {} =>
        /\ ll.Bounds.Min[1] <= ll.Bounds.Max[1]
        /\ ll.Bounds.Min[2] <= ll.Bounds.Max[2]
        /\ \A p \in accepted : Inside(ll.Bounds, p)

AllBright(i, t) == \A p \in Grid(i.w, i.h) : ~Dark(i, t, p)

\* C3: a limb goes back to the caller only with a non-zero radius; a fill
\* that ends with radius zero ends in the fatal outcome, and so does the fill
\* of an image whose every pixel is above the threshold, with nothing accepted.
ZeroRadiusIsFatal ==
    /\ pc = "returned" => Radius(ll) # 0
    /\ Finished /\ Radius(ll) = 0 => pc = "fatal"
    /\ Finished /\ AllBright(img, thresh) => pc = "fatal" /\ accepted = {}
    /\ \A k \in 1 .. Len(history) :
         history[k].outcome = "returned" <=> Radius(history[k].ll) # 0

ZeroRadiusWitness ==
    /\ pc = "fatal" /\ AllBright(img, thresh) /\ accepted = {}
    /\ img.w = MaxW /\ img.h = MaxH /\ thresh = 4096

\* C6: the threshold is 0x0040 when the brightness sample is below 0x0015
\* and 0x1000 otherwise, it does not change while the fill runs, and a
\* dequeued unvisited pixel is accepted exactly when its gray value is at
\* most the threshold.
ThresholdPolicy ==
    /\ [](pc # "idle" => thresh = IF ll.Brightness < 21 THEN 64 ELSE 4096)
    /\ [][pc = "fill" =>
            /\ thresh' = thresh
            /\ (toVisit # <<>> /\ Head(toVisit) \notin seen =>
                  /\ Head(toVisit) \in seen'
                  /\ (Head(toVisit) \in accepted' <=>
                        ColToGrayU16(At(img, Head(toVisit)[1], Head(toVisit)[2]))
                            <= thresh))]_vars

\* a dim frame in which the low threshold has kept a pixel out, and a normal
\* frame in which the same pixel value has been let in
ThresholdWitness ==
    /\ Finished
    /\ \/ /\ thresh = 64 /\ ll.Brightness < 21 /\ accepted # {}
          /\ \E p \in seen \ accepted : img.px[p] = DimRed
       \/ /\ thresh = 4096 /\ ll.Brightness >= 21
          /\ \E p \in accepted : InImage(img, p) /\ img.px[p] = DimRed

\* C7: every point the fill enqueues, reads or accepts is a pixel of the
\* image, whose bounds exclude column Max.X and row Max.Y.
FillStaysInImage ==
    \A p \in Range(toVisit) \cup seen \cup accepted : InImage(img, p)

\* C8: once started, the fill empties its work queue; a point already
\* visited or above the threshold adds nothing to the queue, and no point is
\* marked visited twice.
FillTerminates ==
    /\ (pc = "fill" /\ toVisit # <<>>) ~> (pc = "fill" /\ toVisit = <<>>)
    /\ [][pc = "fill" /\ toVisit # <<>> =>
            /\ (Head(toVisit) \in seen \/ ~Dark(img, thresh, Head(toVisit))
                  => toVisit' = Tail(toVisit))
            /\ seen \subseteq seen'
            /\ Cardinality(seen') <= Cardinality(seen) + 1
            /\ (seen' # seen => Head(toVisit) \notin seen)]_vars

FillTerminatesWitness ==
    /\ pc = "fill" /\ toVisit = <<>>
    /\ Cardinality(accepted) >= 2 /\ seen # accepted

RECURSIVE WindowSum(_, _, _)
WindowSum(i, c, k) ==
    IF k >= 5 THEN 0
    ELSE ColToGrayU16(At(i, c[1] + k, c[2])) + WindowSum(i, c, k + 1)

\* C9: when a pixel qualifies for the centroid, Brightness is the sum of the
\* gray values of the ten pixels of the window at the centroid, divided by 10.
BrightnessIsWindowAverage ==
    pc # "idle" /\ Qualifying(img) # {} =>
        ll.Brightness = WindowSum(img, ll.LuminalCenter, -5) \div 10

\* C10: two calls on the same image end the same way and with the same limb,
\* whatever calls came before each of them in its run of the program.
ResultIndependentOfHistory ==
    \A a, b \in 1 .. Len(history) :
        history[a].img = history[b].img =>
            /\ history[a].outcome = history[b].outcome
            /\ history[a].ll = history[b].ll

\* one image detected after a call on another image, whose centre the overlay
\* keeps, and again as the first call of the next run of the program
HistoryWitness ==
    /\ Len(history) = 3
    /\ history[1].proc = 1 /\ history[2].proc = 1 /\ history[3].proc = 2
    /\ history[1].img # history[2].img
    /\ history[2].img = history[3].img
    /\ history[1].ll.LuminalCenter # history[2].ll.LuminalCenter
    /\ \A k \in 1 .. 3 : history[k].outcome = "returned"
    /\ pc = "returned" /\ dci.currFrame = 0

----------------------------------------------------------------------------
(* Properties of Grow and of the transform algebra *)

\* C4: growing a fresh rectangle with one set of points in two orders gives
\* the same rectangle.
GrowOrderIndependent ==
    restA = {} /\ restB = {} => llA.Bounds = llB.Bounds

\* the point a transform sends (x, y) to
Apply(a, pt) ==
    <<a[1] * pt[1] + a[2] * pt[2] + a[3], a[4] * pt[1] + a[5] * pt[2] + a[6]>>

\* the operands applied one after the other, the last of the chain first
RECURSIVE ApplyRightFirst(_, _)
ApplyRightFirst(chain, pt) ==
    IF chain = <<>> THEN pt
    ELSE ApplyRightFirst(SubSeq(chain, 1, Len(chain) - 1), Apply(chain[Len(chain)], pt))

\* the same, the first of the chain first
RECURSIVE ApplyLeftFirst(_, _)
ApplyLeftFirst(chain, pt) ==
    IF chain = <<>> THEN pt
    ELSE ApplyLeftFirst(Tail(chain), Apply(Head(chain), pt))

TestPts == (-1 .. 1) \X (-1 .. 1)

\* C5: p.MatMult(q) sends a point where p sends what q makes of it, so the
\* transform of a chain applies the chain's operands from the right.
RightOperandActsFirst ==
    ops # <<>> =>
        \A pt \in TestPts :
            /\ Apply(m, pt) = Apply(prev, Apply(ops[Len(ops)], pt))
            /\ Apply(m, pt) = ApplyRightFirst(ops, pt)

\* a rotation about a pivot off the origin, where the order shows
RightOperandWitness ==
    /\ Len(ops) = 3
    /\ m = MatRotateAbout(90, 1, 1)
    /\ \E pt \in TestPts : ApplyRightFirst(ops, pt) # ApplyLeftFirst(ops, pt)
    /\ Apply(m, <<1, 1>>) = <<1, 1>>

====
